---- MODULE Spec2Model ----
(***************************************************************************)
(* Order lifecycle and payment reconciliation of the Soggy Potatoes shop   *)
(* (shop/views.py, shop/models.py, shop/payments.py).                      *)
(*                                                                         *)
(* Money is kept in cents.  The payment provider (Stripe) is modelled by   *)
(* the table of checkout sessions it holds and by the events it may        *)
(* deliver for them.                                                       *)
(***************************************************************************)
EXTENDS Integers, FiniteSets, Sequences, TLC

(* ------------------------------ bounds -------------------------------- *)
MaxOrders == 1
MaxFulfil == 2

MaxQty == 2
MaxStock == 3
MaxPrice == 2
MaxReactions == 4
MaxBans == 3
MaxReports == 2

(* ----------------------------- universe ------------------------------- *)
Users == {"u1", "u2"}
Buyers == {"u1"}
Workers == {"w1", "w2"}
ProductIds == {"p1", "p2"}
NULL == "NULL"
NoSid == 0
NoPrice == -1
OrderIds == 1..MaxOrders
UnknownSid == MaxOrders + 1
Sids == OrderIds \cup {UnknownSid}
Quantities == {1, 2}
STATUS_CHOICES == {"pending", "processing", "shipped", "delivered", "cancelled"}

VARIABLES
    products,        \* Product rows: id -> [name, price, sale_price, stock, track_inventory, is_active]
    cartItems,       \* CartItem rows: [cart, product, quantity]; one Cart per user
    orders,          \* Order rows: id -> [user, status, subtotal, shipping_cost, tax, total, sid]
    orderItems,      \* OrderItem rows: [order, product, product_name, product_price, quantity]
    nextOrderId,     \* next primary key of the Order table
    pendingOrderId,  \* request.session['pending_order_id'] per user, 0 when absent
    gateway,         \* settings.STRIPE_SECRET_KEY is configured
    stripe,          \* provider side: session id -> [payment_status, failed]
    mails,           \* confirmation e-mails delivered, per order id
    response,        \* the request being answered: [handler, request, result]
    fulfilled,       \* history: runs of the confirm-and-fulfil sequence per order id
    decremented,     \* history: stock taken by confirmations, per order id and product
    pc,              \* concurrent requests: where each worker process stands in its handler
    loc,             \* concurrent requests: the handler's local variables (its ORM objects)
    reactions,       \* forum Reaction rows: [id, user, thread, post, reaction_type]
    nextReactionId,  \* next primary key of the Reaction table
    userBans,        \* UserBan rows: [id, user, banned_by]
    nextBanId,       \* next primary key of the UserBan table
    reports          \* PostReport rows: id -> [author, status]

\* the tables of the shop
shopVars == <<products, cartItems, orders, orderItems, nextOrderId, pendingOrderId,
              gateway, stripe, mails, fulfilled, decremented>>

\* the tables of the forum and of the moderation pages
communityVars == <<reactions, nextReactionId, userBans, nextBanId, reports>>

vars == <<products, cartItems, orders, orderItems, nextOrderId, pendingOrderId,
          gateway, stripe, mails, response, fulfilled, decremented, pc, loc,
          reactions, nextReactionId, userBans, nextBanId, reports>>

(* ----------------------------- models.py ------------------------------ *)

\* Product.current_price
current_price(prod) ==
    IF prod.sale_price # NoPrice /\ prod.sale_price # 0 THEN prod.sale_price ELSE prod.price

\* Product.track_inventory: models.BooleanField(default=False)
DefaultTrackInventory == FALSE

\* Product.in_stock
in_stock(prod) ==
    IF ~prod.track_inventory THEN TRUE ELSE prod.stock > 0

\* cart.items.all()
CartOf(u) == {ci \in cartItems : ci.cart = u}

\* sum(item.quantity for item in <rows>)
RECURSIVE SumQuantity(_)
SumQuantity(S) ==
    IF S = {} THEN 0
    ELSE LET x == CHOOSE y \in S : TRUE IN x.quantity + SumQuantity(S \ {x})

\* Cart.total_items
total_items(u) == SumQuantity(CartOf(u))

\* mutant of cart_item_total_price: the list price is charged, sale or not
cart_item_total_price_list(ci) == products[ci.product].price * ci.quantity

\* CartItem.total_price
cart_item_total_price(ci) == current_price(products[ci.product]) * ci.quantity

\* sum(item.total_price for item in <cart rows>)
RECURSIVE SumTotalPrice(_)
SumTotalPrice(S) ==
    IF S = {} THEN 0
    ELSE LET x == CHOOSE y \in S : TRUE
         IN cart_item_total_price(x) + SumTotalPrice(S \ {x})

\* Cart.subtotal
subtotal(u) == SumTotalPrice(CartOf(u))

\* order.items.all()
ItemsOf(o) == {oi \in orderItems : oi.order = o}

\* mutant of OrdersBySid: the lookup does not compare the identifier
OrdersBySid_any(sid) == DOMAIN orders

\* Order.objects.filter(stripe_payment_intent_id=sid)
OrdersBySid(sid) == {o \in DOMAIN orders : orders[o].sid = sid}

\* mutant of OrderDelete: the row is left in place
OrderDelete_kept(ords, items, o) == [orders |-> ords, orderItems |-> items]

\* order.delete(): the row goes, and its OrderItems with it (on_delete=CASCADE)
OrderDelete(ords, items, o) ==
    [orders |-> [x \in DOMAIN ords \ {o} |-> ords[x]],
     orderItems |-> {oi \in items : oi.order # o}]

\* the loops "item.product.stock -= item.quantity; item.product.save()" over a set of
\* rows that name a product (CartItems in dev mode, OrderItems on confirmation)
ReduceStock(rows) ==
    [p \in DOMAIN products |->
        [products[p] EXCEPT !.stock = @ - SumQuantity({r \in rows : r.product = p})]]

\* history of ReduceStock on behalf of order o
Taken(o, rows) ==
    [decremented EXCEPT ![o] =
        [p \in ProductIds |-> @[p] + SumQuantity({r \in rows : r.product = p})]]

\* send_order_confirmation_email: send_mail raising is caught and logged
SendOrderConfirmationEmail(o, mailFails) ==
    IF mailFails THEN mails ELSE [mails EXCEPT ![o] = @ + 1]

\* mutant of AfterConfirmationEmail: the exception of send_mail reaches the caller
AfterConfirmationEmail_raises(mailFails, result) == IF mailFails THEN "500" ELSE result

\* send_order_confirmation_email: "except Exception as e: logger.error(...)"; the
\* caller goes on to the response it was about to give
AfterConfirmationEmail(mailFails, result) == result

\* what the last request was and how it was answered
Resp(h, req, r) == [handler |-> h, request |-> req, result |-> r]

(* ------------------------------- Init --------------------------------- *)
\* no reaction, no ban and no report yet
NoCommunity ==
    /\ reactions = {}
    /\ nextReactionId = 1
    /\ userBans = {}
    /\ nextBanId = 1
    /\ reports = << >>

NoLocals ==
    [kind |-> "none", user |-> NULL, sid |-> NoSid, mailFails |-> FALSE, paid |-> NULL,
     order |-> 0, row |-> NULL, todo |-> {}, item |-> NULL, product |-> NULL,
     result |-> "none"]

Init ==
    /\ products = [p \in ProductIds |->
          [name |-> p, price |-> IF p = "p1" THEN 399 ELSE 599, sale_price |-> NoPrice,
           stock |-> IF p = "p1" THEN 2 ELSE 1, track_inventory |-> (p = "p1"), is_active |-> TRUE]]
    /\ cartItems = {}
    /\ orders = << >>
    /\ orderItems = {}
    /\ nextOrderId = 1
    /\ pendingOrderId = [u \in Users |-> 0]
    /\ gateway \in BOOLEAN
    /\ stripe = << >>
    /\ mails = [o \in OrderIds |-> 0]
    /\ response = Resp("none", <<>>, "none")
    /\ fulfilled = [o \in OrderIds |-> 0]
    /\ decremented = [o \in OrderIds |-> [p \in ProductIds |-> 0]]
    /\ pc = [w \in Workers |-> "idle"]
    /\ loc = [w \in Workers |-> NoLocals]
    /\ NoCommunity

(* ------------------------------- cart --------------------------------- *)

\* mutant of ExistingItem: the row is created without looking for one
ExistingItem_none(u, p) == {}

\* add_to_cart: the lookup of CartItem.objects.get_or_create(cart=cart, product=product)
ExistingItem(u, p) == {ci \in CartOf(u) : ci.product = p}

\* views.add_to_cart
AddToCart(u, p, quantity) ==
    /\ IF p \notin DOMAIN products \/ ~products[p].is_active
       THEN /\ response' = Resp("add_to_cart", <<u, p>>, "404")
            /\ UNCHANGED cartItems
       ELSE IF quantity > products[p].stock
       THEN /\ response' = Resp("add_to_cart", <<u, p>>, "error:only_n_available")
            /\ UNCHANGED cartItems
       ELSE LET existing == ExistingItem(u, p) IN
            IF existing = {}
            THEN /\ cartItems' = cartItems \cup
                        {[cart |-> u, product |-> p, quantity |-> quantity]}
                 /\ response' = Resp("add_to_cart", <<u, p>>, "redirect:cart")
            ELSE LET cart_item == CHOOSE ci \in existing : TRUE
                     new_quantity == cart_item.quantity + quantity
                 IN IF new_quantity > products[p].stock
                    THEN /\ response' = Resp("add_to_cart", <<u, p>>, "error:only_n_available")
                         /\ UNCHANGED cartItems
                    ELSE /\ cartItems' = (cartItems \ {cart_item}) \cup
                                {[cart_item EXCEPT !.quantity = new_quantity]}
                         /\ response' = Resp("add_to_cart", <<u, p>>, "redirect:cart")
    /\ UNCHANGED <<products, orders, orderItems, nextOrderId, pendingOrderId, gateway,
                   stripe, mails, fulfilled, decremented>>

\* views.update_cart
UpdateCart(u, cart_item, quantity) ==
    /\ cart_item \in CartOf(u)
    /\ IF quantity <= 0
       THEN cartItems' = cartItems \ {cart_item}
       ELSE IF quantity > products[cart_item.product].stock
       THEN UNCHANGED cartItems
       ELSE cartItems' = (cartItems \ {cart_item}) \cup
                {[cart_item EXCEPT !.quantity = quantity]}
    /\ response' = Resp("update_cart", <<u>>, "redirect:cart")
    /\ UNCHANGED <<products, orders, orderItems, nextOrderId, pendingOrderId, gateway,
                   stripe, mails, fulfilled, decremented>>

\* views.remove_from_cart
RemoveFromCart(u, cart_item) ==
    /\ cart_item \in CartOf(u)
    /\ cartItems' = cartItems \ {cart_item}
    /\ response' = Resp("remove_from_cart", <<u>>, "redirect:cart")
    /\ UNCHANGED <<products, orders, orderItems, nextOrderId, pendingOrderId, gateway,
                   stripe, mails, fulfilled, decremented>>

(* ----------------------------- checkout ------------------------------- *)

\* mutant of StockShort: the comparison is off by one
StockShort_offByOne(u) == \E ci \in CartOf(u) : ci.quantity > products[ci.product].stock + 1

\* checkout_view: "if item.quantity > item.product.stock" for some cart item
StockShort(u) == \E ci \in CartOf(u) : ci.quantity > products[ci.product].stock

\* mutant of GatewayConfigured: the gateway branch is always taken
GatewayConfigured_always == TRUE

\* mutant of GatewayConfigured: the development branch is always taken
GatewayConfigured_never == FALSE

\* checkout_view: "settings.STRIPE_SECRET_KEY and not ...startswith('pk_test_placeholder')"
GatewayConfigured == gateway

\* Order.objects.create(... status='pending') with the totals computed from the cart
NewOrder(u) ==
    [user |-> u, status |-> "pending", subtotal |-> subtotal(u), shipping_cost |-> 0,
     tax |-> 0, total |-> subtotal(u) + 0 + 0, sid |-> NoSid]

\* OrderItem.objects.create(...) for every cart item
NewOrderItems(u, o) ==
    {[order |-> o, product |-> ci.product, product_name |-> products[ci.product].name,
      product_price |-> current_price(products[ci.product]), quantity |-> ci.quantity]
        : ci \in CartOf(u)}

\* checkout_view, POST with a valid form, gateway configured
CheckoutStripe(u, o, req, stripeError) ==
    /\ pendingOrderId' = [pendingOrderId EXCEPT ![u] = o]
    /\ nextOrderId' = o + 1
    /\ IF stripeError
       THEN \* except stripe.error.StripeError: order.delete()
            LET created == [orders |-> orders @@ (o :> NewOrder(u)),
                            orderItems |-> orderItems \cup NewOrderItems(u, o)]
                left == OrderDelete(created.orders, created.orderItems, o)
            IN /\ orders' = left.orders
               /\ orderItems' = left.orderItems
               /\ UNCHANGED stripe
               /\ response' = Resp("checkout_view", req, "redirect:checkout")
       ELSE \* order.stripe_payment_intent_id = session.id; order.save()
            /\ orders' = orders @@ (o :> [NewOrder(u) EXCEPT !.sid = o])
            /\ orderItems' = orderItems \cup NewOrderItems(u, o)
            /\ stripe' = stripe @@ (o :> [payment_status |-> "unpaid", failed |-> FALSE])
            /\ response' = Resp("checkout_view", req, "redirect:stripe")
    /\ UNCHANGED <<products, cartItems, mails, fulfilled, decremented>>

\* checkout_view, POST with a valid form, development mode
CheckoutDev(u, o, req, mailFails) ==
    /\ pendingOrderId' = [pendingOrderId EXCEPT ![u] = o]
    /\ nextOrderId' = o + 1
    /\ orders' = orders @@ (o :> [NewOrder(u) EXCEPT !.status = "processing"])
    /\ orderItems' = orderItems \cup NewOrderItems(u, o)
    /\ products' = ReduceStock(CartOf(u))
    /\ decremented' = Taken(o, CartOf(u))
    /\ cartItems' = cartItems \ CartOf(u)
    /\ mails' = SendOrderConfirmationEmail(o, mailFails)
    /\ response' = Resp("checkout_view", req,
                        AfterConfirmationEmail(mailFails, "redirect:order_confirmation"))
    /\ fulfilled' = [fulfilled EXCEPT ![o] = @ + 1]
    /\ UNCHANGED stripe

\* views.checkout_view
CheckoutView(u, method, formValid, stripeError, mailFails) ==
    LET req == <<u, method>> IN
    /\ UNCHANGED gateway
    /\ IF total_items(u) = 0
       THEN /\ response' = Resp("checkout_view", req, "redirect:product_list")
            /\ UNCHANGED <<products, cartItems, orders, orderItems, nextOrderId,
                           pendingOrderId, stripe, mails, fulfilled, decremented>>
       ELSE IF StockShort(u)
       THEN /\ response' = Resp("checkout_view", req, "redirect:cart")
            /\ UNCHANGED <<products, cartItems, orders, orderItems, nextOrderId,
                           pendingOrderId, stripe, mails, fulfilled, decremented>>
       ELSE IF method = "POST" /\ formValid
       THEN /\ nextOrderId <= MaxOrders
            /\ IF GatewayConfigured
               THEN CheckoutStripe(u, nextOrderId, req, stripeError)
               ELSE CheckoutDev(u, nextOrderId, req, mailFails)
       ELSE /\ response' = Resp("checkout_view", req, "render:checkout")
            /\ UNCHANGED <<products, cartItems, orders, orderItems, nextOrderId,
                           pendingOrderId, stripe, mails, fulfilled, decremented>>

(* ------------------------ payment reconciliation ---------------------- *)

\* "if item.product:" - the OrderItems of o whose product reference is live
LiveItems(o) == {oi \in ItemsOf(o) : oi.product # NULL}

\* mutant of SessionPaid: the session's payment status is not looked at
SessionPaid_any(session) == TRUE

\* payment_success: "if session.payment_status == 'paid'"
SessionPaid(session) == session.payment_status = "paid"

\* views.payment_success (redirect path)
PaymentSuccess(u, session_id, mailFails) ==
    /\ UNCHANGED <<orderItems, nextOrderId, gateway, stripe>>
    /\ IF session_id = NoSid
       THEN /\ response' = Resp("payment_success", <<u, session_id>>, "redirect:home:invalid_session")
            /\ UNCHANGED <<products, cartItems, orders, pendingOrderId, mails,
                           fulfilled, decremented>>
       ELSE IF session_id \notin DOMAIN stripe
       THEN \* retrieve_checkout_session raises stripe.error.StripeError
            /\ response' = Resp("payment_success", <<u, session_id>>, "redirect:home:stripe_error")
            /\ UNCHANGED <<products, cartItems, orders, pendingOrderId, mails,
                           fulfilled, decremented>>
       ELSE IF OrdersBySid(session_id) = {}
       THEN \* except Order.DoesNotExist
            /\ response' = Resp("payment_success", <<u, session_id>>, "redirect:home:order_not_found")
            /\ UNCHANGED <<products, cartItems, orders, pendingOrderId, mails,
                           fulfilled, decremented>>
       ELSE LET o == CHOOSE x \in OrdersBySid(session_id) : TRUE IN
            IF SessionPaid(stripe[session_id])
            THEN /\ fulfilled[o] < MaxFulfil
                 /\ fulfilled' = [fulfilled EXCEPT ![o] = @ + 1]
                 /\ orders' = [orders EXCEPT ![o].status = "processing"]
                 /\ products' = ReduceStock(LiveItems(o))
                 /\ decremented' = Taken(o, LiveItems(o))
                 /\ cartItems' = cartItems \ CartOf(u)
                 /\ pendingOrderId' = [pendingOrderId EXCEPT ![u] = 0]
                 /\ mails' = SendOrderConfirmationEmail(o, mailFails)
                 /\ response' = Resp("payment_success", <<u, session_id>>,
                        AfterConfirmationEmail(mailFails, "redirect:order_confirmation"))
            ELSE /\ response' = Resp("payment_success", <<u, session_id>>, "redirect:order_detail")
                 /\ UNCHANGED <<products, cartItems, orders, pendingOrderId, mails,
                                fulfilled, decremented>>

\* mutant of PendingOrderOf: the status filter is dropped
PendingOrderOf_anyStatus(u) ==
    {o \in DOMAIN orders : o = pendingOrderId[u] /\ orders[o].user = u}

\* payment_cancelled: Order.objects.get(id=pending_order_id, user=request.user,
\* status='pending'); empty when the lookup raises Order.DoesNotExist
PendingOrderOf(u) ==
    {o \in DOMAIN orders :
        o = pendingOrderId[u] /\ orders[o].user = u /\ orders[o].status = "pending"}

\* views.payment_cancelled
PaymentCancelled(u) ==
    /\ IF pendingOrderId[u] # 0 /\ PendingOrderOf(u) # {}
       THEN LET left == OrderDelete(orders, orderItems, pendingOrderId[u]) IN
            /\ orders' = left.orders
            /\ orderItems' = left.orderItems
            /\ pendingOrderId' = [pendingOrderId EXCEPT ![u] = 0]
       ELSE UNCHANGED <<orders, orderItems, pendingOrderId>>
    /\ response' = Resp("payment_cancelled", <<u>>, "redirect:cart")
    /\ UNCHANGED <<products, cartItems, nextOrderId, gateway, stripe, mails,
                   fulfilled, decremented>>

\* mutant of StillPending: the guard is missing, as on the redirect path
StillPending_unguarded(order) == TRUE

\* handle_successful_payment: "if order.status == 'pending'"
StillPending(order) == order.status = "pending"

\* views.handle_successful_payment (webhook path)
HandleSuccessfulPayment(session_id, mailFails) ==
    IF OrdersBySid(session_id) = {}
    THEN \* except Order.DoesNotExist: logged
         UNCHANGED <<products, orders, mails, fulfilled, decremented>>
    ELSE LET o == CHOOSE x \in OrdersBySid(session_id) : TRUE IN
         /\ IF StillPending(orders[o])
            THEN /\ fulfilled[o] < MaxFulfil
                 /\ fulfilled' = [fulfilled EXCEPT ![o] = @ + 1]
                 /\ orders' = [orders EXCEPT ![o].status = "processing"]
                 /\ products' = ReduceStock(LiveItems(o))
                 /\ decremented' = Taken(o, LiveItems(o))
                 /\ mails' = SendOrderConfirmationEmail(o, mailFails)
            ELSE UNCHANGED <<products, orders, mails, fulfilled, decremented>>

\* mutant of HandleFailedPayment: the order is deleted instead of being marked
HandleFailedPayment_deletes(intent_id) ==
    /\ IF OrdersBySid(intent_id) = {}
       THEN UNCHANGED orders
       ELSE LET o == CHOOSE x \in OrdersBySid(intent_id) : TRUE IN
            orders' = [x \in DOMAIN orders \ {o} |-> orders[x]]
    /\ UNCHANGED <<products, mails, fulfilled, decremented>>

\* views.handle_failed_payment
HandleFailedPayment(intent_id) ==
    /\ IF OrdersBySid(intent_id) = {}
       THEN UNCHANGED orders
       ELSE LET o == CHOOSE x \in OrdersBySid(intent_id) : TRUE IN
            orders' = [orders EXCEPT ![o].status = "cancelled"]
    /\ UNCHANGED <<products, mails, fulfilled, decremented>>

Completed(sid) == [type |-> "checkout.session.completed", id |-> sid]
Failed(sid) == [type |-> "payment_intent.payment_failed", id |-> sid]

\* the events the provider can sign: a completed session is a paid one, a failed
\* intent had a failed attempt; UnknownSid stands for events of objects that this
\* shop never stored
ProviderEvents ==
    {[type |-> "checkout.session.completed", id |-> s] :
        s \in {x \in DOMAIN stripe : stripe[x].payment_status = "paid"} \cup {UnknownSid}}
    \cup {[type |-> "payment_intent.payment_failed", id |-> s] :
        s \in {x \in DOMAIN stripe : stripe[x].failed} \cup {UnknownSid}}
    \cup {[type |-> "charge.succeeded", id |-> UnknownSid]}

\* stripe_webhook: the event leads handle_successful_payment to the e-mail
WebhookSendsMail(event) ==
    /\ event.type = "checkout.session.completed"
    /\ \E o \in OrdersBySid(event.id) : StillPending(orders[o])

\* mutant of ConstructEventRaises: the payload is taken as it comes
ConstructEventRaises_never(verify) == FALSE

\* payments.construct_webhook_event raises ValueError (malformed payload) or
\* stripe.error.SignatureVerificationError (signature does not match)
ConstructEventRaises(verify) == verify \in {"invalid_payload", "invalid_signature"}

\* views.stripe_webhook
StripeWebhook(verify, event, mailFails) ==
    /\ UNCHANGED <<cartItems, orderItems, nextOrderId, pendingOrderId, gateway, stripe>>
    /\ IF verify = "missing_signature"
       THEN /\ response' = Resp("stripe_webhook", <<verify>>, "400")
            /\ UNCHANGED <<products, orders, mails, fulfilled, decremented>>
       ELSE IF ConstructEventRaises(verify)
       THEN \* except ValueError / except stripe.error.SignatureVerificationError
            /\ response' = Resp("stripe_webhook", <<verify>>, "400")
            /\ UNCHANGED <<products, orders, mails, fulfilled, decremented>>
       ELSE /\ event \in ProviderEvents
            /\ IF event.type = "checkout.session.completed"
               THEN HandleSuccessfulPayment(event.id, mailFails)
               ELSE IF event.type = "payment_intent.payment_failed"
               THEN HandleFailedPayment(event.id)
               ELSE UNCHANGED <<products, orders, mails, fulfilled, decremented>>
            /\ response' = Resp("stripe_webhook", <<verify, event.type, event.id>>,
                                IF WebhookSendsMail(event)
                                THEN AfterConfirmationEmail(mailFails, "200")
                                ELSE "200")

(* --------------------------- environment ------------------------------ *)

\* the buyer completes the hosted checkout: the session's payment_status becomes 'paid'
BuyerPays(s) ==
    /\ s \in DOMAIN stripe
    /\ stripe[s].payment_status = "unpaid"
    /\ stripe' = [stripe EXCEPT ![s].payment_status = "paid"]
    /\ UNCHANGED <<products, cartItems, orders, orderItems, nextOrderId, pendingOrderId,
                   gateway, mails, response, fulfilled, decremented>>

\* a payment attempt on the hosted page is declined
PaymentAttemptFails(s) ==
    /\ s \in DOMAIN stripe
    /\ stripe[s].payment_status = "unpaid"
    /\ ~stripe[s].failed
    /\ stripe' = [stripe EXCEPT ![s].failed = TRUE]
    /\ UNCHANGED <<products, cartItems, orders, orderItems, nextOrderId, pendingOrderId,
                   gateway, mails, response, fulfilled, decremented>>

\* staff move a confirmed order on by hand (OrderAdmin, list_editable status)
AdminSetStatus(o, status) ==
    /\ o \in DOMAIN orders
    /\ \/ orders[o].status = "processing" /\ status = "shipped"
       \/ orders[o].status = "shipped" /\ status = "delivered"
    /\ orders' = [orders EXCEPT ![o].status = status]
    /\ UNCHANGED <<products, cartItems, orderItems, nextOrderId, pendingOrderId,
                   gateway, stripe, mails, response, fulfilled, decremented>>

(* ------------------------------- Next --------------------------------- *)
Verifications == {"ok", "missing_signature", "invalid_signature", "invalid_payload"}
AllEvents ==
    {[type |-> t, id |-> s] :
        t \in {"checkout.session.completed", "payment_intent.payment_failed",
               "charge.succeeded"},
        s \in Sids}

\* the response leaves the server; requests are served one at a time
ResponseSent ==
    /\ response.handler # "none"
    /\ response' = Resp("none", <<>>, "none")
    /\ UNCHANGED <<products, cartItems, orders, orderItems, nextOrderId, pendingOrderId,
                   gateway, stripe, mails, fulfilled, decremented, pc, loc>>
    /\ UNCHANGED communityVars

\* a request served from start to end with no other request in between
Idle == response.handler = "none"
Serve(A) == Idle /\ A /\ UNCHANGED <<pc, loc>> /\ UNCHANGED communityVars

Next ==
    \/ ResponseSent
    \/ \E u \in Buyers, p \in ProductIds, q \in Quantities : Serve(AddToCart(u, p, q))
    \/ \E u \in Buyers, ci \in cartItems, q \in Quantities : Serve(UpdateCart(u, ci, q))
    \/ \E u \in Buyers, ci \in cartItems : Serve(RemoveFromCart(u, ci))
    \/ \E u \in Buyers, m \in {"GET", "POST"}, v \in BOOLEAN, e \in BOOLEAN, f \in BOOLEAN :
          Serve(CheckoutView(u, m, v, e, f))
    \/ \E u \in Buyers, s \in Sids \cup {NoSid}, f \in BOOLEAN : Serve(PaymentSuccess(u, s, f))
    \/ \E u \in Buyers : Serve(PaymentCancelled(u))
    \/ \E v \in Verifications, ev \in AllEvents, f \in BOOLEAN : Serve(StripeWebhook(v, ev, f))
    \/ \E s \in Sids : Serve(BuyerPays(s))
    \/ \E s \in Sids : Serve(PaymentAttemptFails(s))
    \/ \E o \in OrderIds, st \in {"shipped", "delivered"} : Serve(AdminSetStatus(o, st))

Spec == Init /\ [][Next]_vars

(* ------------------- concurrent confirmation handlers ----------------- *)
(* Requests run in separate worker processes with no transaction and no row *)
(* lock: every ORM call is one step, and a step of another worker may fall  *)
(* between any two of them.                                                 *)

ConcFrame ==
    /\ UNCHANGED <<cartItems, orderItems, nextOrderId, pendingOrderId, gateway, stripe,
                   response>>
    /\ UNCHANGED communityVars

Goto(w, label) == pc' = [pc EXCEPT ![w] = label]
Finish(w, result) ==
    /\ pc' = [pc EXCEPT ![w] = "done"]
    /\ loc' = [loc EXCEPT ![w].result = result]

\* stripe_webhook receives a verified checkout.session.completed event
StartWebhook(w, session_id, mailFails) ==
    /\ pc[w] = "idle"
    /\ Completed(session_id) \in ProviderEvents
    /\ Goto(w, "get")
    /\ loc' = [loc EXCEPT ![w] = [NoLocals EXCEPT !.kind = "webhook", !.sid = session_id,
                                                  !.mailFails = mailFails]]
    /\ UNCHANGED <<products, orders, mails, fulfilled, decremented>>
    /\ ConcFrame

\* payment_success is entered with ?session_id=...
StartRedirect(w, u, session_id, mailFails) ==
    /\ pc[w] = "idle"
    /\ session_id # NoSid
    /\ Goto(w, "retrieve")
    /\ loc' = [loc EXCEPT ![w] = [NoLocals EXCEPT !.kind = "redirect", !.user = u,
                                                  !.sid = session_id,
                                                  !.mailFails = mailFails]]
    /\ UNCHANGED <<products, orders, mails, fulfilled, decremented>>
    /\ ConcFrame

\* payment_success: session = payments.retrieve_checkout_session(session_id)
Retrieve(w) ==
    /\ pc[w] = "retrieve"
    /\ IF loc[w].sid \notin DOMAIN stripe
       THEN Finish(w, "redirect:home:stripe_error")
       ELSE /\ Goto(w, "get")
            /\ loc' = [loc EXCEPT ![w].paid = stripe[loc[w].sid].payment_status]
    /\ UNCHANGED <<products, orders, mails, fulfilled, decremented>>
    /\ ConcFrame

\* order = Order.objects.get(stripe_payment_intent_id=...): the row is copied
GetOrder(w) ==
    /\ pc[w] = "get"
    /\ IF OrdersBySid(loc[w].sid) = {}
       THEN Finish(w, IF loc[w].kind = "webhook" THEN "200"
                      ELSE "redirect:home:order_not_found")
       ELSE LET o == CHOOSE x \in OrdersBySid(loc[w].sid) : TRUE IN
            /\ Goto(w, "save")
            /\ loc' = [loc EXCEPT ![w].order = o, ![w].row = orders[o]]
    /\ UNCHANGED <<products, orders, mails, fulfilled, decremented>>
    /\ ConcFrame

\* mutant of MayFulfil: the webhook writes only if the stored row is still pending
MayFulfil_stored(w) ==
    IF loc[w].kind = "webhook"
    THEN loc[w].row.status = "pending" /\ orders[loc[w].order].status = "pending"
    ELSE loc[w].paid = "paid"

\* the test before the write: the webhook's "if order.status == 'pending'" on its
\* copy of the row, the redirect's "if session.payment_status == 'paid'"
MayFulfil(w) ==
    IF loc[w].kind = "webhook"
    THEN loc[w].row.status = "pending"
    ELSE loc[w].paid = "paid"

\* order.status = 'processing'; order.save(): the copy is written back
SaveOrder(w) ==
    /\ pc[w] = "save"
    /\ loc[w].order \in DOMAIN orders
    /\ IF MayFulfil(w)
       THEN /\ orders' = [orders EXCEPT ![loc[w].order] =
                              [loc[w].row EXCEPT !.status = "processing"]]
            /\ fulfilled' = [fulfilled EXCEPT ![loc[w].order] = @ + 1]
            /\ Goto(w, "items")
            /\ loc' = [loc EXCEPT ![w].row.status = "processing"]
       ELSE /\ Finish(w, IF loc[w].kind = "webhook" THEN "200"
                         ELSE "redirect:order_detail")
            /\ UNCHANGED <<orders, fulfilled>>
    /\ UNCHANGED <<products, mails, decremented>>
    /\ ConcFrame

\* for item in order.items.all(): the queryset is read when the loop starts
LoadItems(w) ==
    /\ pc[w] = "items"
    /\ Goto(w, "item")
    /\ loc' = [loc EXCEPT ![w].todo = ItemsOf(loc[w].order)]
    /\ UNCHANGED <<products, orders, mails, fulfilled, decremented>>
    /\ ConcFrame

\* "if item.product:" loads the product row of the next item
ReadProduct(w) ==
    /\ pc[w] = "item"
    /\ IF loc[w].todo = {}
       THEN /\ Goto(w, IF loc[w].kind = "webhook" THEN "mail" ELSE "cart")
            /\ UNCHANGED loc
       ELSE LET item == CHOOSE oi \in loc[w].todo : TRUE IN
            IF item.product = NULL \/ item.product \notin DOMAIN products
            THEN /\ UNCHANGED pc
                 /\ loc' = [loc EXCEPT ![w].todo = @ \ {item}]
            ELSE /\ Goto(w, "item_save")
                 /\ loc' = [loc EXCEPT ![w].item = item,
                                       ![w].product = products[item.product]]
    /\ UNCHANGED <<products, orders, mails, fulfilled, decremented>>
    /\ ConcFrame

\* item.product.stock -= item.quantity; item.product.save()
SaveProduct(w) ==
    /\ pc[w] = "item_save"
    /\ LET item == loc[w].item IN
       /\ products' = [products EXCEPT ![item.product] =
                           [loc[w].product EXCEPT !.stock = @ - item.quantity]]
       /\ decremented' = [decremented EXCEPT ![loc[w].order][item.product] =
                              @ + item.quantity]
       /\ loc' = [loc EXCEPT ![w].todo = @ \ {item}, ![w].item = NULL,
                             ![w].product = NULL]
    /\ Goto(w, "item")
    /\ UNCHANGED <<orders, mails, fulfilled>>
    /\ ConcFrame

\* payment_success: cart = get_or_create_cart(request); cart.items.all().delete()
ClearCart(w) ==
    /\ pc[w] = "cart"
    /\ cartItems' = cartItems \ CartOf(loc[w].user)
    /\ Goto(w, "mail")
    /\ UNCHANGED <<products, orders, orderItems, nextOrderId, pendingOrderId, gateway,
                   stripe, mails, response, fulfilled, decremented, loc>>
    /\ UNCHANGED communityVars

\* send_order_confirmation_email(order) and the response; the redirect's session
\* change (del request.session['pending_order_id']) is stored with the response
SendMail(w) ==
    /\ pc[w] = "mail"
    /\ mails' = SendOrderConfirmationEmail(loc[w].order, loc[w].mailFails)
    /\ pendingOrderId' = IF loc[w].kind = "redirect"
                         THEN [pendingOrderId EXCEPT ![loc[w].user] = 0]
                         ELSE pendingOrderId
    /\ Finish(w, AfterConfirmationEmail(loc[w].mailFails,
                     IF loc[w].kind = "webhook" THEN "200"
                     ELSE "redirect:order_confirmation"))
    /\ UNCHANGED <<products, cartItems, orders, orderItems, nextOrderId, gateway,
                   stripe, response, fulfilled, decremented>>
    /\ UNCHANGED communityVars

WorkerStep(w) ==
    \/ Retrieve(w)
    \/ GetOrder(w)
    \/ SaveOrder(w)
    \/ LoadItems(w)
    \/ ReadProduct(w)
    \/ SaveProduct(w)
    \/ ClearCart(w)
    \/ SendMail(w)

\* the shop is set up by requests served alone; the confirmation triggers of the
\* paid order then run in the worker processes
NextConc ==
    \/ ResponseSent
    \/ \E u \in Buyers, p \in ProductIds, q \in Quantities : Serve(AddToCart(u, p, q))
    \/ \E u \in Buyers : Serve(CheckoutView(u, "POST", TRUE, FALSE, FALSE))
    \/ \E s \in Sids : Serve(BuyerPays(s))
    \/ \E w \in Workers, s \in Sids, f \in BOOLEAN : StartWebhook(w, s, f)
    \/ \E w \in Workers, u \in Buyers, s \in Sids, f \in BOOLEAN : StartRedirect(w, u, s, f)
    \/ \E w \in Workers : WorkerStep(w)

SpecConc == Init /\ [][NextConc]_vars

(* ---------------------- two orders, one product ---------------------- *)
(* Two buyers have each checked out and paid an order for the same product; *)
(* the confirmations of the two orders run in the two worker processes.     *)

RaceOrderIds == {1, 2}

\* whose order it is
RaceBuyer(o) == IF o = 1 THEN "u1" ELSE "u2"

\* the stock before either confirmation
InitialStock(p) == IF p = "p1" THEN 2 ELSE 1

\* the state left by two checkout_view requests (gateway configured) for product
\* p1, each followed by the buyer's payment on the hosted page
InitRace ==
    /\ products = [p \in ProductIds |->
          [name |-> p, price |-> IF p = "p1" THEN 399 ELSE 599, sale_price |-> NoPrice,
           stock |-> InitialStock(p), track_inventory |-> (p = "p1"), is_active |-> TRUE]]
    /\ \E q \in [RaceOrderIds -> {1}] :
          /\ cartItems = {[cart |-> RaceBuyer(o), product |-> "p1", quantity |-> q[o]]
                             : o \in RaceOrderIds}
          /\ orders = [o \in RaceOrderIds |->
                [user |-> RaceBuyer(o), status |-> "pending", subtotal |-> 399 * q[o],
                 shipping_cost |-> 0, tax |-> 0, total |-> 399 * q[o], sid |-> o]]
          /\ orderItems = {[order |-> o, product |-> "p1", product_name |-> "p1",
                            product_price |-> 399, quantity |-> q[o]] : o \in RaceOrderIds}
    /\ nextOrderId = 3
    /\ pendingOrderId = [u \in Users |-> IF u = "u1" THEN 1 ELSE 2]
    /\ gateway = TRUE
    /\ stripe = [o \in RaceOrderIds |-> [payment_status |-> "paid", failed |-> FALSE]]
    /\ mails = [o \in RaceOrderIds |-> 0]
    /\ response = Resp("none", <<>>, "none")
    /\ fulfilled = [o \in RaceOrderIds |-> 0]
    /\ decremented = [o \in RaceOrderIds |-> [p \in ProductIds |-> 0]]
    /\ pc = [w \in Workers |-> "idle"]
    /\ loc = [w \in Workers |-> NoLocals]
    /\ NoCommunity

NextRace ==
    \/ \E w \in Workers, s \in RaceOrderIds, f \in BOOLEAN : StartWebhook(w, s, f)
    \/ \E w \in Workers, s \in RaceOrderIds, f \in BOOLEAN :
          StartRedirect(w, RaceBuyer(s), s, f)
    \/ \E w \in Workers : WorkerStep(w)

SpecRace == InitRace /\ [][NextRace]_vars

\* the same two paid orders, with the requests served one at a time: either buyer
\* may ask for the success page of either session, or cancel, and the provider
\* delivers its webhooks
NextTwoBuyers ==
    \/ ResponseSent
    \/ \E u \in Users, s \in RaceOrderIds, f \in BOOLEAN : Serve(PaymentSuccess(u, s, f))
    \/ \E u \in Users : Serve(PaymentCancelled(u))
    \/ \E s \in RaceOrderIds, f \in BOOLEAN : Serve(StripeWebhook("ok", Completed(s), f))

SpecTwoBuyers == InitRace /\ [][NextTwoBuyers]_vars

(* -------------------------------- carts ------------------------------- *)
(* The cart handlers alone, for every user, over catalogues that differ in  *)
(* stock and in the track_inventory flag, with every quantity a form can    *)
(* post from 0 up.                                                          *)

\* int(request.POST.get('quantity', 1))
CartQuantities == 0..MaxQty

\* the state after construction, but for the catalogue
InitRest ==
    /\ cartItems = {}
    /\ orders = << >>
    /\ orderItems = {}
    /\ nextOrderId = 1
    /\ pendingOrderId = [u \in Users |-> 0]
    /\ stripe = << >>
    /\ mails = [o \in OrderIds |-> 0]
    /\ response = Resp("none", <<>>, "none")
    /\ fulfilled = [o \in OrderIds |-> 0]
    /\ decremented = [o \in OrderIds |-> [p \in ProductIds |-> 0]]
    /\ pc = [w \in Workers |-> "idle"]
    /\ loc = [w \in Workers |-> NoLocals]
    /\ NoCommunity

InitCart ==
    /\ \E stock \in [ProductIds -> 0..MaxStock], track \in [ProductIds -> BOOLEAN] :
          products = [p \in ProductIds |->
              [name |-> p, price |-> IF p = "p1" THEN 399 ELSE 599, sale_price |-> NoPrice,
               stock |-> stock[p], track_inventory |-> track[p], is_active |-> TRUE]]
    /\ gateway = FALSE
    /\ InitRest

NextCart ==
    \/ ResponseSent
    \/ \E u \in Users, p \in ProductIds, q \in CartQuantities : Serve(AddToCart(u, p, q))
    \/ \E u \in Users, ci \in cartItems, q \in CartQuantities : Serve(UpdateCart(u, ci, q))
    \/ \E u \in Users, ci \in cartItems : Serve(RemoveFromCart(u, ci))

SpecCart == InitCart /\ [][NextCart]_vars

(* ------------------------------- prices ------------------------------- *)
(* Catalogues that differ in price and sale price; the price a buyer is     *)
(* charged is current_price, applied when the cart is totalled and when the *)
(* order items are written at checkout.                                     *)

\* Product.sale_price: null=True, blank=True
SalePrices == {NoPrice} \cup 0..MaxPrice

InitPrice ==
    /\ \E price \in [ProductIds -> 1..MaxPrice], sale_price \in [ProductIds -> SalePrices] :
          products = [p \in ProductIds |->
              [name |-> p, price |-> price[p], sale_price |-> sale_price[p],
               stock |-> IF p = "p1" THEN 2 ELSE 1, track_inventory |-> (p = "p1"),
               is_active |-> TRUE]]
    /\ gateway = FALSE
    /\ InitRest

NextPrice ==
    \/ ResponseSent
    \/ \E u \in Buyers, p \in ProductIds, q \in Quantities : Serve(AddToCart(u, p, q))
    \/ \E u \in Buyers, f \in BOOLEAN : Serve(CheckoutView(u, "POST", TRUE, FALSE, f))

SpecPrice == InitPrice /\ [][NextPrice]_vars

(* ------------------------------ catalogue ----------------------------- *)
(* The staff product page (users.views.admin_products) at work between the  *)
(* buyers' requests: products are renamed, repriced, restocked and deleted  *)
(* while carts are filled and checked out.                                  *)

\* the products the staff work on
EditedProducts == {"p1"}

\* request.POST.get('name', product.name)
Names == {"p1", "renamed"}

\* admin_products, action == 'update'
AdminUpdateProduct(p, name, price, stock, track_inventory, is_active, sale_price) ==
    /\ IF p \notin DOMAIN products
       THEN \* get_object_or_404
            /\ response' = Resp("admin_products", <<"update", p>>, "404")
            /\ UNCHANGED products
       ELSE /\ products' = [products EXCEPT ![p] =
                   [name |-> name, price |-> price, sale_price |-> sale_price,
                    stock |-> stock, track_inventory |-> track_inventory,
                    is_active |-> is_active]]
            /\ response' = Resp("admin_products", <<"update", p>>, "redirect:admin_products")
    /\ UNCHANGED <<cartItems, orders, orderItems, nextOrderId, pendingOrderId, gateway,
                   stripe, mails, fulfilled, decremented>>

\* mutant of ProductDeleted: the order items go with the product
ProductDeleted_cascade(items, p) == {oi \in items : oi.product # p}

\* OrderItem.product: on_delete=models.SET_NULL
ProductDeleted(items, p) ==
    {IF oi.product = p THEN [oi EXCEPT !.product = NULL] ELSE oi : oi \in items}

\* admin_products, action == 'delete'; CartItem.product is on_delete=CASCADE
AdminDeleteProduct(p) ==
    /\ IF p \notin DOMAIN products
       THEN /\ response' = Resp("admin_products", <<"delete", p>>, "404")
            /\ UNCHANGED <<products, cartItems, orderItems>>
       ELSE /\ products' = [x \in DOMAIN products \ {p} |-> products[x]]
            /\ cartItems' = {ci \in cartItems : ci.product # p}
            /\ orderItems' = ProductDeleted(orderItems, p)
            /\ response' = Resp("admin_products", <<"delete", p>>, "redirect:admin_products")
    /\ UNCHANGED <<orders, nextOrderId, pendingOrderId, gateway, stripe, mails,
                   fulfilled, decremented>>

InitCatalog ==
    /\ products = [p \in ProductIds |->
          [name |-> p, price |-> MaxPrice, sale_price |-> NoPrice,
           stock |-> IF p = "p1" THEN 2 ELSE 1, track_inventory |-> (p = "p1"),
           is_active |-> TRUE]]
    /\ gateway \in BOOLEAN
    /\ InitRest

NextCatalog ==
    \/ ResponseSent
    \/ \E u \in Buyers, p \in ProductIds, q \in Quantities : Serve(AddToCart(u, p, q))
    \/ \E u \in Buyers, e \in BOOLEAN : Serve(CheckoutView(u, "POST", TRUE, e, FALSE))
    \/ \E p \in EditedProducts, name \in Names, price \in 1..MaxPrice,
          stock \in {0, MaxStock}, track \in BOOLEAN, sale_price \in SalePrices :
            Serve(AdminUpdateProduct(p, name, price, stock, track, TRUE, sale_price))
    \/ \E p \in EditedProducts : Serve(AdminDeleteProduct(p))

SpecCatalog == InitCatalog /\ [][NextCatalog]_vars

(* ------------------------ checkout, step by step ---------------------- *)
(* checkout_view runs without a transaction: each query of the cart and each *)
(* insert is a step of its own, and requests of the buyer's other window or  *)
(* of the staff are served in between.                                       *)

\* one checkout request at a time; the other requests are served whole
CheckoutWorkers == {"w1"}

\* checkout_view is entered with a valid POST
StartCheckout(w, u, stripeError, mailFails) ==
    /\ pc[w] = "idle"
    /\ Goto(w, "ck_empty")
    /\ loc' = [loc EXCEPT ![w] = [NoLocals EXCEPT !.kind = "checkout", !.user = u,
                                                  !.paid = stripeError,
                                                  !.mailFails = mailFails]]
    /\ UNCHANGED <<products, cartItems, orders, orderItems, nextOrderId, pendingOrderId,
                   gateway, stripe, mails, response, fulfilled, decremented>>
    /\ UNCHANGED communityVars

\* if cart.total_items == 0: return redirect('shop:product_list')
CkEmpty(w) ==
    /\ pc[w] = "ck_empty"
    /\ IF total_items(loc[w].user) = 0
       THEN Finish(w, "redirect:product_list")
       ELSE Goto(w, "ck_stock") /\ UNCHANGED loc
    /\ UNCHANGED <<products, cartItems, orders, orderItems, nextOrderId, pendingOrderId,
                   gateway, stripe, mails, response, fulfilled, decremented>>
    /\ UNCHANGED communityVars

\* for item in cart.items.all(): if item.quantity > item.product.stock: ...
CkStock(w) ==
    /\ pc[w] = "ck_stock"
    /\ IF StockShort(loc[w].user)
       THEN Finish(w, "redirect:cart")
       ELSE Goto(w, "ck_subtotal") /\ UNCHANGED loc
    /\ UNCHANGED <<products, cartItems, orders, orderItems, nextOrderId, pendingOrderId,
                   gateway, stripe, mails, response, fulfilled, decremented>>
    /\ UNCHANGED communityVars

\* subtotal = cart.subtotal; total = subtotal + shipping_cost + tax
CkSubtotal(w) ==
    /\ pc[w] = "ck_subtotal"
    /\ Goto(w, "ck_create")
    /\ loc' = [loc EXCEPT ![w].row = NewOrder(loc[w].user)]
    /\ UNCHANGED <<products, cartItems, orders, orderItems, nextOrderId, pendingOrderId,
                   gateway, stripe, mails, response, fulfilled, decremented>>
    /\ UNCHANGED communityVars

\* order = Order.objects.create(..., subtotal=subtotal, ..., total=total, status='pending')
CkCreate(w) ==
    /\ pc[w] = "ck_create"
    /\ nextOrderId <= MaxOrders
    /\ orders' = orders @@ (nextOrderId :> loc[w].row)
    /\ nextOrderId' = nextOrderId + 1
    /\ Goto(w, "ck_items")
    /\ loc' = [loc EXCEPT ![w].order = nextOrderId]
    /\ UNCHANGED <<products, cartItems, orderItems, pendingOrderId, gateway, stripe,
                   mails, response, fulfilled, decremented>>
    /\ UNCHANGED communityVars

\* for item in cart.items.all(): OrderItem.objects.create(...); then
\* request.session['pending_order_id'] = order.id
CkItems(w) ==
    /\ pc[w] = "ck_items"
    /\ orderItems' = orderItems \cup NewOrderItems(loc[w].user, loc[w].order)
    /\ pendingOrderId' = [pendingOrderId EXCEPT ![loc[w].user] = loc[w].order]
    /\ Goto(w, "ck_pay")
    /\ UNCHANGED <<products, cartItems, orders, nextOrderId, gateway, stripe, mails,
                   response, fulfilled, decremented, loc>>
    /\ UNCHANGED communityVars

\* the rest of the request: the checkout session and the save of its id, or
\* order.delete() on a StripeError, or the development branch
CkPay(w) ==
    /\ pc[w] = "ck_pay"
    /\ LET o == loc[w].order
           u == loc[w].user
       IN IF GatewayConfigured
          THEN IF loc[w].paid
               THEN LET left == OrderDelete(orders, orderItems, o) IN
                    /\ orders' = left.orders
                    /\ orderItems' = left.orderItems
                    /\ Finish(w, "redirect:checkout")
                    /\ UNCHANGED <<products, cartItems, stripe, mails, fulfilled, decremented>>
               ELSE /\ orders' = [orders EXCEPT ![o] = [loc[w].row EXCEPT !.sid = o]]
                    /\ stripe' = stripe @@ (o :> [payment_status |-> "unpaid", failed |-> FALSE])
                    /\ Finish(w, "redirect:stripe")
                    /\ UNCHANGED <<products, cartItems, orderItems, mails, fulfilled,
                                   decremented>>
          ELSE /\ orders' = [orders EXCEPT ![o] = [loc[w].row EXCEPT !.status = "processing"]]
               /\ products' = ReduceStock(CartOf(u))
               /\ decremented' = Taken(o, CartOf(u))
               /\ cartItems' = cartItems \ CartOf(u)
               /\ mails' = SendOrderConfirmationEmail(o, loc[w].mailFails)
               /\ fulfilled' = [fulfilled EXCEPT ![o] = @ + 1]
               /\ Finish(w, AfterConfirmationEmail(loc[w].mailFails,
                                                   "redirect:order_confirmation"))
               /\ UNCHANGED <<orderItems, stripe>>
    /\ UNCHANGED <<nextOrderId, pendingOrderId, gateway, response>>
    /\ UNCHANGED communityVars

CheckoutStep(w) ==
    \/ CkEmpty(w)
    \/ CkStock(w)
    \/ CkSubtotal(w)
    \/ CkCreate(w)
    \/ CkItems(w)
    \/ CkPay(w)

NextCheckout ==
    \/ ResponseSent
    \/ \E u \in Buyers, p \in ProductIds, q \in Quantities : Serve(AddToCart(u, p, q))
    \/ \E u \in Buyers, ci \in cartItems : Serve(RemoveFromCart(u, ci))
    \/ \E p \in EditedProducts, price \in 1..MaxPrice :
          /\ p \in DOMAIN products
          /\ Serve(AdminUpdateProduct(p, products[p].name, price, products[p].stock,
                                      products[p].track_inventory, TRUE, NoPrice))
    \/ \E w \in CheckoutWorkers, u \in Buyers, e \in BOOLEAN :
          StartCheckout(w, u, e, FALSE)
    \/ \E w \in CheckoutWorkers : CheckoutStep(w)

SpecCheckout == InitCatalog /\ [][NextCheckout]_vars

(* -------------------------------- forum ------------------------------- *)
(* forum.views.toggle_reaction over one thread and one post, for every user *)
(* and the reaction types a form can post.                                  *)

ThreadIds == {"t1"}
PostIds == {"post1"}
\* request.POST.get('thread_id'), request.POST.get('post_id'): absent, known or unknown
PostedThreadIds == ThreadIds \cup {NULL, "t404"}
PostedPostIds == PostIds \cup {NULL}
\* request.POST.get('reaction_type', 'upvote')
PostedReactionTypes == {"upvote", "downvote", "heart"}

\* 'downvote' if reaction_type == 'upvote' else 'upvote'
Opposite(reaction_type) == IF reaction_type = "upvote" THEN "downvote" ELSE "upvote"

\* Reaction.objects.filter(user=..., thread=... or post=..., reaction_type=...)
ReactionRows(R, u, thread, post, reaction_type) ==
    {r \in R : /\ r.user = u
               /\ r.reaction_type = reaction_type
               /\ IF thread # NULL THEN r.thread = thread ELSE r.post = post}

\* mutant of OppositeRows: the opposite vote is left in place
OppositeRows_none(R, u, thread, post, reaction_type) == {}

\* the rows removed before a new reaction is created
OppositeRows(R, u, thread, post, reaction_type) ==
    IF reaction_type \in {"upvote", "downvote"}
    THEN ReactionRows(R, u, thread, post, Opposite(reaction_type))
    ELSE {}

\* the body of either branch of toggle_reaction on the table R with next key nid;
\* post is NULL in the thread branch and thread is NULL in the post branch
Toggled(R, nid, u, thread, post, reaction_type) ==
    LET existing == ReactionRows(R, u, thread, post, reaction_type) IN
    IF existing # {}
    THEN \* existing = ....first(); existing.delete()
         [reactions |-> R \ {CHOOSE r \in existing : \A x \in existing : r.id <= x.id},
          nextReactionId |-> nid, action |-> "removed"]
    ELSE [reactions |-> (R \ OppositeRows(R, u, thread, post, reaction_type)) \cup
                            {[id |-> nid, user |-> u, thread |-> thread, post |-> post,
                              reaction_type |-> reaction_type]},
          nextReactionId |-> nid + 1, action |-> "added"]

\* forum.views.toggle_reaction
ToggleReaction(u, thread_id, post_id, reaction_type) ==
    /\ IF thread_id = NULL /\ post_id = NULL
       THEN /\ response' = Resp("toggle_reaction", <<u, thread_id, post_id, reaction_type>>,
                                "400")
            /\ UNCHANGED <<reactions, nextReactionId>>
       ELSE IF (thread_id # NULL /\ thread_id \notin ThreadIds)
               \/ (thread_id = NULL /\ post_id \notin PostIds)
       THEN \* get_object_or_404
            /\ response' = Resp("toggle_reaction", <<u, thread_id, post_id, reaction_type>>,
                                "404")
            /\ UNCHANGED <<reactions, nextReactionId>>
       ELSE LET after == Toggled(reactions, nextReactionId, u, thread_id,
                                 IF thread_id # NULL THEN NULL ELSE post_id, reaction_type)
            IN /\ after.nextReactionId <= MaxReactions + 1
               /\ reactions' = after.reactions
               /\ nextReactionId' = after.nextReactionId
               /\ response' = Resp("toggle_reaction",
                                   <<u, thread_id, post_id, reaction_type>>, after.action)
    /\ UNCHANGED <<userBans, nextBanId, reports>>

\* a forum or moderation request served from start to end
ServeCommunity(A) == Idle /\ A /\ UNCHANGED <<pc, loc>> /\ UNCHANGED shopVars

InitForum ==
    /\ products = [p \in ProductIds |->
          [name |-> p, price |-> MaxPrice, sale_price |-> NoPrice,
           stock |-> IF p = "p1" THEN 2 ELSE 1, track_inventory |-> (p = "p1"),
           is_active |-> TRUE]]
    /\ gateway = FALSE
    /\ InitRest

NextForum ==
    \/ ResponseSent
    \/ \E u \in Users, t \in PostedThreadIds, p \in PostedPostIds,
          ty \in PostedReactionTypes : ServeCommunity(ToggleReaction(u, t, p, ty))

SpecForum == InitForum /\ [][NextForum]_vars

(* ----------------------------- moderation ---------------------------- *)
(* users.views: members report forum content, superusers handle the reports *)
(* and ban and unban accounts. A piece of content stands for its author.    *)

Superusers == {"root"}
Accounts == Users \cup Superusers
\* the username in the URL: an account or nobody's name
Usernames == Accounts \cup {"nobody"}
ReportActions == {"dismiss", "delete_content", "ban_user"}

\* User.is_superuser
is_superuser(u) == u \in Superusers

\* hasattr(user, 'ban')
HasBan(u) == \E b \in userBans : b.user = u

\* UserBan.objects.create(user=..., banned_by=request.user) / ban.save()
CreateBan(u, by) ==
    /\ nextBanId <= MaxBans
    /\ userBans' = userBans \cup {[id |-> nextBanId, user |-> u, banned_by |-> by]}
    /\ nextBanId' = nextBanId + 1

\* users.views.report_post / report_thread, POST: any member reports any content
ReportContent(reporter, author) ==
    /\ Len(reports) < MaxReports
    /\ reports' = Append(reports, [author |-> author, status |-> "pending"])
    /\ response' = Resp("report_post", <<reporter, author>>, "redirect:thread")
    /\ UNCHANGED <<reactions, nextReactionId, userBans, nextBanId>>

\* users.views.ban_user
BanUser(requester, username, method) ==
    /\ IF ~is_superuser(requester)
       THEN /\ response' = Resp("ban_user", <<requester, username>>, "403")
            /\ UNCHANGED <<userBans, nextBanId>>
       ELSE IF username \notin Accounts
       THEN /\ response' = Resp("ban_user", <<requester, username>>, "404")
            /\ UNCHANGED <<userBans, nextBanId>>
       ELSE IF is_superuser(username)
       THEN /\ response' = Resp("ban_user", <<requester, username>>,
                                "redirect:public_profile")
            /\ UNCHANGED <<userBans, nextBanId>>
       ELSE IF method # "POST"
       THEN /\ response' = Resp("ban_user", <<requester, username>>, "render:ban_user")
            /\ UNCHANGED <<userBans, nextBanId>>
       ELSE /\ IF HasBan(username)
               THEN UNCHANGED <<userBans, nextBanId>>
               ELSE CreateBan(username, requester)
            /\ response' = Resp("ban_user", <<requester, username>>,
                                "redirect:admin_dashboard")
    /\ UNCHANGED <<reactions, nextReactionId, reports>>

\* users.views.unban_user
UnbanUser(requester, username) ==
    /\ IF ~is_superuser(requester)
       THEN /\ response' = Resp("unban_user", <<requester, username>>, "403")
            /\ UNCHANGED userBans
       ELSE IF username \notin Accounts
       THEN /\ response' = Resp("unban_user", <<requester, username>>, "404")
            /\ UNCHANGED userBans
       ELSE \* user.ban.delete(): the row the one-to-one accessor returns
            /\ userBans' = IF HasBan(username)
                           THEN userBans \ {CHOOSE b \in userBans : b.user = username}
                           ELSE userBans
            /\ response' = Resp("unban_user", <<requester, username>>,
                                "redirect:admin_dashboard")
    /\ UNCHANGED <<reactions, nextReactionId, nextBanId, reports>>

\* users.views.handle_report; deleting the content deletes its reports with it
\* (on_delete=CASCADE), and the report.save() that follows stores the row again
\* or fails on the missing content: "gone" marks a report that is no longer stored
HandleReport(requester, report_id, method, action, stored) ==
    /\ IF ~is_superuser(requester)
       THEN /\ response' = Resp("handle_report", <<requester, report_id>>, "403")
            /\ UNCHANGED <<userBans, nextBanId, reports>>
       ELSE IF report_id \notin DOMAIN reports \/ reports[report_id].status = "gone"
       THEN /\ response' = Resp("handle_report", <<requester, report_id>>, "404")
            /\ UNCHANGED <<userBans, nextBanId, reports>>
       ELSE IF method # "POST"
       THEN /\ response' = Resp("handle_report", <<requester, report_id>>,
                                "render:handle_report")
            /\ UNCHANGED <<userBans, nextBanId, reports>>
       ELSE LET user_to_ban == reports[report_id].author IN
            /\ IF action = "ban_user" /\ ~HasBan(user_to_ban)
               THEN CreateBan(user_to_ban, requester)
               ELSE UNCHANGED <<userBans, nextBanId>>
            /\ reports' = [reports EXCEPT ![report_id].status =
                   IF action = "dismiss" THEN "dismissed"
                   ELSE IF action = "ban_user" THEN "action_taken"
                   ELSE IF action = "delete_content"
                        THEN (IF stored THEN "action_taken" ELSE "gone")
                   ELSE @]
            /\ response' = Resp("handle_report", <<requester, report_id>>,
                                IF action = "delete_content" /\ ~stored THEN "500"
                                ELSE "redirect:admin_reports")
    /\ UNCHANGED <<reactions, nextReactionId>>

NextModeration ==
    \/ ResponseSent
    \/ \E r \in Users, a \in Accounts : ServeCommunity(ReportContent(r, a))
    \/ \E r \in Accounts, u \in Usernames, m \in {"GET", "POST"} :
          ServeCommunity(BanUser(r, u, m))
    \/ \E r \in Accounts, u \in Usernames : ServeCommunity(UnbanUser(r, u))
    \/ \E r \in Accounts, i \in 1..MaxReports, m \in {"GET", "POST"},
          a \in ReportActions, st \in BOOLEAN : ServeCommunity(HandleReport(r, i, m, a, st))

SpecModeration == InitForum /\ [][NextModeration]_vars

(* ------------------------------ claims -------------------------------- *)

\* quantity of product p ordered in order o (live product references only)
OrderedQty(o, p) == SumQuantity({oi \in LiveItems(o) : oi.product = p})

PaymentHandlerStep ==
    /\ response.handler = "none"
    /\ response'.handler \in {"checkout_view", "payment_success", "stripe_webhook",
                              "payment_cancelled"}

\* C2: every status change the checkout, success-redirect, webhook and cancel
\* handlers make to an order is pending -> processing or pending -> cancelled; in
\* particular a cancelled, shipped or delivered order keeps its status.
C2_HandlerTransitions ==
    [][PaymentHandlerStep =>
          \A o \in DOMAIN orders \cap DOMAIN orders' :
              orders'[o].status # orders[o].status =>
                  /\ orders[o].status = "pending"
                  /\ orders'[o].status \in {"processing", "cancelled"}]_vars

\* C3: a payment_intent.payment_failed event delivered for an order that is already
\* confirmed (processing, shipped or delivered) leaves the order's status as it was.
C3_FailureAfterConfirmation ==
    [][\A s \in Sids :
          StripeWebhook("ok", Failed(s), FALSE) =>
              \A o \in OrdersBySid(s) :
                  orders[o].status \in {"processing", "shipped", "delivered"} =>
                      /\ o \in DOMAIN orders'
                      /\ orders'[o].status = orders[o].status]_vars

\* C4: when two confirmation handlers of the same pending, paid order run with
\* their steps interleaved, the test made before the write does not stop the second
\* one: a handler that read the order while it was pending (the redirect: that saw
\* the session paid) goes on to fulfil it whatever status is stored by then, so the
\* confirm-and-fulfil sequence can run twice for the order.
C4_StaleCheckFulfils ==
    [][\A w \in Workers :
          (/\ pc[w] = "save" /\ pc'[w] # "save"
           /\ IF loc[w].kind = "webhook" THEN loc[w].row.status = "pending"
                                        ELSE loc[w].paid = "paid") =>
              /\ pc'[w] = "items"
              /\ orders'[loc[w].order].status = "processing"
              /\ fulfilled'[loc[w].order] = fulfilled[loc[w].order] + 1]_vars

\* two deliveries of the webhook have both fulfilled one order: its stock was taken
\* twice and two confirmation e-mails were sent
C4_Witness ==
    \E o \in DOMAIN orders :
        /\ \A w \in Workers : pc[w] = "done" /\ loc[w].kind = "webhook" /\ loc[w].order = o
        /\ fulfilled[o] = 2
        /\ mails[o] = 2
        /\ \E p \in ProductIds : OrderedQty(o, p) > 0
        /\ \A p \in ProductIds : decremented[o][p] = 2 * OrderedQty(o, p)

\* C5: a checkout.session.completed event delivered again for an order that is no
\* longer pending changes neither the order table, nor any stock, nor the e-mails
\* sent, and is answered with HTTP 200.
C5_RedeliveryNoOp ==
    [][\A s \in Sids, f \in BOOLEAN :
          (/\ StripeWebhook("ok", Completed(s), f)
           /\ \E o \in OrdersBySid(s) : orders[o].status # "pending") =>
              /\ orders' = orders
              /\ orderItems' = orderItems
              /\ products' = products
              /\ cartItems' = cartItems
              /\ mails' = mails
              /\ response'.result = "200"]_vars

\* C5 witness: a completed event for a shipped, delivered or cancelled order has
\* just been answered with 200.
C5_Witness ==
    /\ response.handler = "stripe_webhook"
    /\ response.result = "200"
    /\ response.request[2] = "checkout.session.completed"
    /\ \E o \in OrdersBySid(response.request[3]) :
          /\ orders[o].status \in {"shipped", "delivered", "cancelled"}
          /\ fulfilled[o] = 1 /\ mails[o] = 1

C7_WebhookAsRedirect ==
    [][\A s \in Sids, f \in BOOLEAN :
          (/\ StripeWebhook("ok", Completed(s), f)
           /\ \E o \in OrdersBySid(s) : orders[o].status = "pending") =>
              \A o \in OrdersBySid(s) :
                  /\ orders'[o].status = "processing"
                  /\ products' = ReduceStock(LiveItems(o))
                  /\ mails' = SendOrderConfirmationEmail(o, f)
                  /\ {ci \in cartItems' : ci.cart = orders[o].user} = {}]_vars

\* C8: a checkout submission with some cart item's quantity above that product's
\* stock fails validation: no Order, no OrderItem, stock and cart as before.
C8_StockValidation ==
    [][\A u \in Buyers, v \in BOOLEAN, e \in BOOLEAN, f \in BOOLEAN :
          (/\ CheckoutView(u, "POST", v, e, f)
           /\ \E ci \in CartOf(u) : ci.quantity > products[ci.product].stock) =>
              /\ orders' = orders
              /\ orderItems' = orderItems
              /\ nextOrderId' = nextOrderId
              /\ products' = products
              /\ cartItems' = cartItems
              /\ stripe' = stripe
              /\ mails' = mails
              /\ response'.result \in {"redirect:cart", "redirect:product_list"}]_vars

\* C8 witness: a submission has just been sent back to the cart while the cart
\* holds more of a product than is in stock.
C8_Witness ==
    /\ response.handler = "checkout_view"
    /\ response.request[2] = "POST"
    /\ response.result = "redirect:cart"
    /\ \E ci \in CartOf(response.request[1]) : ci.quantity > products[ci.product].stock

\* C9: with a gateway configured, a successful checkout submission creates the order
\* pending, with one OrderItem per cart item and the provider's session id stored on
\* it, and leaves every product's stock and the cart as they were.
C9_CheckoutCreatesPending ==
    [][\A u \in Buyers, f \in BOOLEAN :
          (/\ gateway
           /\ CheckoutView(u, "POST", TRUE, FALSE, f)
           /\ total_items(u) # 0
           /\ ~\E ci \in CartOf(u) : ci.quantity > products[ci.product].stock) =>
              LET o == nextOrderId IN
              /\ o \notin DOMAIN orders
              /\ o \in DOMAIN orders'
              /\ orders'[o].status = "pending"
              /\ orders'[o].user = u
              /\ orders'[o].sid # NoSid
              /\ orders'[o].sid \in DOMAIN stripe' \ DOMAIN stripe
              /\ {oi \in orderItems' : oi.order = o} = NewOrderItems(u, o)
              /\ NewOrderItems(u, o) # {}
              /\ products' = products
              /\ cartItems' = cartItems
              /\ mails' = mails]_vars

\* C9 witness: the buyer has just been sent to the hosted payment page, the order
\* is pending and the cart still holds the ordered items.
C9_Witness ==
    /\ response.handler = "checkout_view"
    /\ response.result = "redirect:stripe"
    /\ \E o \in DOMAIN orders :
          /\ orders[o].status = "pending"
          /\ orders[o].sid # NoSid
          /\ CartOf(orders[o].user) # {}

\* C10: when the provider raises an error while the checkout session is created, the
\* order just created and its items are deleted: no order of that submission
\* remains, and stock and cart are as before.
C10_GatewayErrorDeletesOrder ==
    [][\A u \in Buyers, f \in BOOLEAN :
          (/\ gateway
           /\ CheckoutView(u, "POST", TRUE, TRUE, f)
           /\ total_items(u) # 0
           /\ ~\E ci \in CartOf(u) : ci.quantity > products[ci.product].stock) =>
              /\ nextOrderId \notin DOMAIN orders'
              /\ orders' = orders
              /\ orderItems' = orderItems
              /\ products' = products
              /\ cartItems' = cartItems
              /\ stripe' = stripe
              /\ mails' = mails
              /\ response'.result = "redirect:checkout"]_vars

\* C10 witness: a submission has just ended in the gateway error path.
C10_Witness ==
    /\ response.handler = "checkout_view"
    /\ response.result = "redirect:checkout"
    /\ nextOrderId > 1
    /\ nextOrderId - 1 \notin DOMAIN orders

\* C11: a webhook request whose signature header is missing, whose signature does
\* not verify or whose payload is malformed is answered with HTTP 400, changes no
\* order, order item, stock or cart row and sends no confirmation e-mail.
C11_RejectedWebhook ==
    [][\A v \in Verifications \ {"ok"}, ev \in AllEvents, f \in BOOLEAN :
          StripeWebhook(v, ev, f) =>
              /\ response'.result = "400"
              /\ orders' = orders
              /\ orderItems' = orderItems
              /\ products' = products
              /\ cartItems' = cartItems
              /\ mails' = mails]_vars

\* a delivery with a bad signature was turned away while a paid order was waiting
\* for its confirmation
C11_Witness ==
    /\ response.handler = "stripe_webhook"
    /\ response.request[1] = "invalid_signature"
    /\ response.result = "400"
    /\ \E o \in DOMAIN orders :
          /\ orders[o].status = "pending"
          /\ orders[o].sid \in DOMAIN stripe
          /\ stripe[orders[o].sid].payment_status = "paid"

\* C12: a verified webhook event, or a success redirect, that carries a session or
\* intent id stored on no order changes no order, order item, stock or cart row and
\* sends nothing; the webhook is still answered with HTTP 200 and the redirect ends
\* on its error outcome (back to the home page with an error message).
C12_UnknownIdentifier ==
    [][\A s \in Sids :
          (\A o \in DOMAIN orders : orders[o].sid # s) =>
              /\ \A ev \in {Completed(s), Failed(s)}, f \in BOOLEAN :
                    StripeWebhook("ok", ev, f) =>
                        /\ response'.result = "200"
                        /\ orders' = orders /\ orderItems' = orderItems
                        /\ products' = products /\ cartItems' = cartItems
                        /\ mails' = mails
              /\ \A u \in Buyers, f \in BOOLEAN :
                    PaymentSuccess(u, s, f) =>
                        /\ response'.result \in {"redirect:home:stripe_error",
                                                 "redirect:home:order_not_found"}
                        /\ orders' = orders /\ orderItems' = orderItems
                        /\ products' = products /\ cartItems' = cartItems
                        /\ mails' = mails]_vars

\* the provider reported a paid session whose order the shop no longer has (it was
\* deleted on the cancel redirect): the delivery was acknowledged
C12_Witness ==
    /\ response.handler = "stripe_webhook"
    /\ response.result = "200"
    /\ response.request[2] = "checkout.session.completed"
    /\ response.request[3] \in DOMAIN stripe
    /\ \A o \in DOMAIN orders : orders[o].sid # response.request[3]

\* C13: on the success redirect, when the session retrieved from the provider does
\* not have payment status 'paid', the order is left as it is (a pending order stays
\* pending) and product stock, the cart and the e-mails sent are unchanged.
C13_UnpaidRedirect ==
    [][\A u \in Buyers, s \in Sids, f \in BOOLEAN :
          (/\ PaymentSuccess(u, s, f)
           /\ s \in DOMAIN stripe
           /\ stripe[s].payment_status # "paid") =>
              /\ orders' = orders
              /\ orderItems' = orderItems
              /\ products' = products
              /\ cartItems' = cartItems
              /\ mails' = mails]_vars

\* the buyer came back through the success URL before paying: the order is pending,
\* the cart still holds the items
C13_Witness ==
    /\ response.handler = "payment_success"
    /\ response.result = "redirect:order_detail"
    /\ \E o \in DOMAIN orders :
          /\ orders[o].sid = response.request[2]
          /\ orders[o].status = "pending"
          /\ stripe[orders[o].sid].payment_status = "unpaid"
          /\ CartOf(orders[o].user) # {}
          /\ mails[o] = 0

\* C14: the cancel redirect deletes the order recorded in the buyer's session only
\* when that order belongs to the buyer and is still pending, and then no row of it
\* remains; an order in any other status is neither deleted nor modified by the
\* cancel redirect; stock and cart items are unchanged in both cases.
C14_CancelRedirect ==
    [][\A u \in Buyers :
          PaymentCancelled(u) =>
              LET o == pendingOrderId[u] IN
              /\ products' = products
              /\ cartItems' = cartItems
              /\ IF o \in DOMAIN orders /\ orders[o].user = u /\ orders[o].status = "pending"
                 THEN /\ o \notin DOMAIN orders'
                      /\ \A oi \in orderItems' : oi.order # o
                      /\ \A x \in DOMAIN orders \ {o} :
                            x \in DOMAIN orders' /\ orders'[x] = orders[x]
                      /\ {oi \in orderItems : oi.order # o} = orderItems'
                 ELSE orders' = orders /\ orderItems' = orderItems]_vars

\* the buyer gave up on the payment page: the pending order created by the checkout
\* is gone, with its items, and the cart still holds what was to be bought
C14_Witness ==
    /\ response.handler = "payment_cancelled"
    /\ nextOrderId > 1
    /\ (nextOrderId - 1) \in DOMAIN stripe
    /\ (nextOrderId - 1) \notin DOMAIN orders
    /\ \A oi \in orderItems : oi.order # nextOrderId - 1
    /\ pendingOrderId["u1"] = 0
    /\ CartOf("u1") # {}

\* C15: a payment_intent.payment_failed webhook whose id is the payment identifier
\* stored on a pending order sets that order's status to cancelled and keeps the
\* order row, with every other field, and its items; stock and cart are unchanged.
C15_FailedPaymentCancels ==
    [][\A s \in Sids, f \in BOOLEAN :
          StripeWebhook("ok", Failed(s), f) =>
              \A o \in DOMAIN orders :
                  (orders[o].sid = s /\ orders[o].status = "pending") =>
                      /\ o \in DOMAIN orders'
                      /\ orders'[o] = [orders[o] EXCEPT !.status = "cancelled"]
                      /\ orderItems' = orderItems
                      /\ products' = products
                      /\ cartItems' = cartItems]_vars

\* a declined payment was reported for a pending order: the order is now cancelled
\* and still has its items
C15_Witness ==
    /\ response.handler = "stripe_webhook"
    /\ response.result = "200"
    /\ response.request[2] = "payment_intent.payment_failed"
    /\ \E o \in DOMAIN orders :
          /\ orders[o].sid = response.request[3]
          /\ orders[o].status = "cancelled"
          /\ fulfilled[o] = 0
          /\ ItemsOf(o) # {}

\* C16: in dev mode (no gateway configured) one valid checkout request ends with
\* the new order in status processing, the stock of each purchased product lowered
\* by the purchased quantity, the buyer's cart empty and the confirmation sent
\* once (one e-mail, unless the mail backend fails); the order is not left pending.
C16_DevModeCheckout ==
    [][\A u \in Buyers, e \in BOOLEAN, f \in BOOLEAN :
          (/\ CheckoutView(u, "POST", TRUE, e, f)
           /\ ~gateway
           /\ \E ci \in cartItems : ci.cart = u /\ ci.quantity > 0
           /\ \A ci \in cartItems : ci.cart = u => ci.quantity <= products[ci.product].stock) =>
              LET o == nextOrderId IN
              /\ o \in DOMAIN orders'
              /\ orders'[o].status = "processing"
              /\ \A p \in ProductIds :
                    products'[p].stock = products[p].stock
                        - SumQuantity({ci \in cartItems : ci.cart = u /\ ci.product = p})
              /\ \A ci \in cartItems' : ci.cart # u
              /\ fulfilled'[o] = 1
              /\ mails'[o] = IF f THEN 0 ELSE 1
              /\ response'.result = "redirect:order_confirmation"]_vars

\* a dev-mode checkout of a one-item cart has just been answered
C16_Witness ==
    /\ ~gateway
    /\ response.handler = "checkout_view"
    /\ response.result = "redirect:order_confirmation"
    /\ \E o \in DOMAIN orders :
          /\ orders[o].status = "processing"
          /\ Cardinality(ItemsOf(o)) = 1
          /\ \E oi \in ItemsOf(o) : decremented[o][oi.product] = oi.quantity
          /\ CartOf(orders[o].user) = {}
          /\ mails[o] = 1

C18_AddToCartStock ==
    [][\A u \in Users, p \in ProductIds, q \in CartQuantities :
          AddToCart(u, p, q) =>
              LET held == SumQuantity({ci \in cartItems : ci.cart = u /\ ci.product = p})
                  rejected == response'.result = "error:only_n_available"
              IN /\ rejected <=> (products[p].track_inventory /\ held + q > products[p].stock)
                 /\ rejected => cartItems' = cartItems
                 /\ ~rejected => response'.result = "redirect:cart"]_vars

\* C19: after any sequence of add_to_cart, update_cart and remove_from_cart
\* requests a cart holds at most one CartItem per product; an addition of a product
\* that is already in the cart, once accepted, raises the quantity of that item by
\* the amount added and creates no second row.
C19_OneRowPerProduct ==
    [][/\ \A a \in cartItems', b \in cartItems' :
            (a.cart = b.cart /\ a.product = b.product) => a = b
       /\ \A u \in Users, p \in ProductIds, q \in CartQuantities :
            (/\ AddToCart(u, p, q)
             /\ response'.result = "redirect:cart"
             /\ \E ci \in cartItems : ci.cart = u /\ ci.product = p) =>
                \E ci \in cartItems :
                    /\ ci.cart = u /\ ci.product = p
                    /\ cartItems' = (cartItems \ {ci}) \cup
                                        {[ci EXCEPT !.quantity = ci.quantity + q]}
                    /\ Cardinality(cartItems') = Cardinality(cartItems)]_vars

\* a product was added a second time: its one row now carries both quantities,
\* while another user's cart has a row of its own for the same product
C19_Witness ==
    /\ response.handler = "add_to_cart"
    /\ response.result = "redirect:cart"
    /\ \E ci \in cartItems :
          /\ ci.cart = response.request[1]
          /\ ci.product = response.request[2]
          /\ ci.quantity > MaxQty
          /\ \E other \in cartItems : other.cart # ci.cart /\ other.product = ci.product

\* C20: Product.current_price equals sale_price when sale_price is set and lower
\* than price, and equals price in every other case (sale_price absent, or
\* sale_price greater than or equal to price).
C20_CurrentPrice ==
    \A p \in DOMAIN products :
        current_price(products[p]) =
            IF products[p].sale_price # NoPrice /\ products[p].sale_price < products[p].price
            THEN products[p].sale_price
            ELSE products[p].price

\* C21: for a product created with the default inventory settings, Product.in_stock
\* is true while stock > 0 and false once stock is 0.
C21_InStockDefault ==
    \A p \in DOMAIN products :
        products[p].track_inventory = DefaultTrackInventory =>
            (in_stock(products[p]) <=> products[p].stock > 0)

\* what user u's cart costs, product by product: quantity held times current price
RECURSIVE CartValue(_, _)
CartValue(u, P) ==
    IF P = {} THEN 0
    ELSE LET p == CHOOSE x \in P : TRUE
         IN SumQuantity({ci \in cartItems : ci.cart = u /\ ci.product = p})
                * current_price(products[p])
            + CartValue(u, P \ {p})

\* C22: every order created by checkout has total = subtotal + shipping_cost + tax,
\* and its subtotal is the sum, over the items of the cart, of quantity times the
\* product's current price at the time of the request.
C22_OrderTotals ==
    [][\A u \in Buyers, e \in BOOLEAN, f \in BOOLEAN :
          (CheckoutView(u, "POST", TRUE, e, f) /\ nextOrderId \in DOMAIN orders') =>
              LET order == orders'[nextOrderId] IN
              /\ order.total = order.subtotal + order.shipping_cost + order.tax
              /\ order.subtotal = CartValue(u, DOMAIN products)]_vars

\* an order was created from a cart of two products, one of them on sale
C22_Witness ==
    /\ response.handler = "checkout_view"
    /\ \E o \in DOMAIN orders :
          /\ Cardinality(ItemsOf(o)) = 2
          /\ \E oi \in ItemsOf(o) :
                /\ oi.product \in DOMAIN products
                /\ products[oi.product].sale_price \notin {NoPrice, 0}
                /\ oi.product_price = products[oi.product].sale_price
                /\ oi.product_price # products[oi.product].price
          /\ orders[o].total = orders[o].subtotal
          /\ orders[o].subtotal > 0

\* C23: each OrderItem's product_name, product_price and quantity are the product's
\* name, its current price and the cart quantity at order creation, and stay as
\* they are through any later edit of the product (name, price, sale price, stock)
\* and through its deletion, which only sets the item's product reference to null.
C23_OrderItemSnapshot ==
    [][/\ \A u \in Buyers, e \in BOOLEAN, f \in BOOLEAN :
            (CheckoutView(u, "POST", TRUE, e, f) /\ nextOrderId \in DOMAIN orders') =>
                {oi \in orderItems' : oi.order = nextOrderId} =
                    {[order |-> nextOrderId, product |-> ci.product,
                      product_name |-> products[ci.product].name,
                      product_price |-> current_price(products[ci.product]),
                      quantity |-> ci.quantity] : ci \in {x \in cartItems : x.cart = u}}
       /\ \A p \in EditedProducts, name \in Names, price \in 1..MaxPrice,
             stock \in {0, MaxStock}, track \in BOOLEAN, sale_price \in SalePrices :
            AdminUpdateProduct(p, name, price, stock, track, TRUE, sale_price) =>
                orderItems' = orderItems
       /\ \A p \in EditedProducts :
            AdminDeleteProduct(p) =>
                /\ Cardinality(orderItems') = Cardinality(orderItems)
                /\ \A oi \in orderItems :
                      \E kept \in orderItems' :
                          /\ kept.order = oi.order
                          /\ kept.product_name = oi.product_name
                          /\ kept.product_price = oi.product_price
                          /\ kept.quantity = oi.quantity
                          /\ kept.product = IF oi.product = p THEN NULL ELSE oi.product]_vars

\* a product that was sold has been deleted: the order item still carries the name
\* and the price it was sold under, and no product
C23_Witness ==
    /\ response.handler = "admin_products"
    /\ response.request[1] = "delete"
    /\ response.result = "redirect:admin_products"
    /\ \E oi \in orderItems :
          /\ oi.product = NULL
          /\ oi.product_name = "p1"
          /\ oi.product_price = MaxPrice
    /\ "p1" \notin DOMAIN products

\* C24: once the provider has marked an order's checkout session as paid, the order
\* is never deleted, and the delivery of the checkout.session.completed webhook
\* brings it to status processing, whatever cancel redirects or payment_failed
\* events came before that delivery. Stated on the states: a paid session always
\* has its order, and when the completed webhook of a paid session has just been
\* answered the order is processing (or further on: shipped, delivered).
C24_PaidOrderSurvives ==
    \A s \in DOMAIN stripe :
        stripe[s].payment_status = "paid" =>
            /\ \E o \in DOMAIN orders : orders[o].sid = s
            /\ (/\ response.handler = "stripe_webhook"
                /\ response.result = "200"
                /\ response.request[2] = "checkout.session.completed"
                /\ response.request[3] = s) =>
                   \A o \in DOMAIN orders :
                       orders[o].sid = s =>
                           orders[o].status \in {"processing", "shipped", "delivered"}

\* C25: when two different orders containing the same product are confirmed by
\* handlers running at the same time, the product's final stock is its initial stock
\* minus the sum of both ordered quantities, in every interleaving.
C25_NoLostDecrement ==
    (/\ \A w \in Workers : pc[w] = "done"
     /\ \A o \in RaceOrderIds : fulfilled[o] = 1
     /\ \A w \in Workers, v \in Workers : w # v => loc[w].order # loc[v].order) =>
        \A p \in DOMAIN products :
            products[p].stock = InitialStock(p) - OrderedQty(1, p) - OrderedQty(2, p)

\* C26: a success redirect requested by user U with the session id of an order
\* owned by another user V changes nothing: V's order, product stock and U's cart
\* stay as they are and no confirmation e-mail is sent.
C26_ForeignSession ==
    [][\A u \in Users, s \in RaceOrderIds, f \in BOOLEAN :
          (/\ PaymentSuccess(u, s, f)
           /\ \E o \in DOMAIN orders : orders[o].sid = s /\ orders[o].user # u) =>
              /\ orders' = orders
              /\ products' = products
              /\ {ci \in cartItems' : ci.cart = u} = {ci \in cartItems : ci.cart = u}
              /\ mails' = mails]_vars

\* Sum of OrderItem.total_price (product_price * quantity) over a set of order items
RECURSIVE OrderItemsValue(_)
OrderItemsValue(S) ==
    IF S = {} THEN 0
    ELSE LET oi == CHOOSE x \in S : TRUE
         IN oi.product_price * oi.quantity + OrderItemsValue(S \ {oi})

\* C27: every order that exists once a checkout request has completed has at least
\* one order item and a stored subtotal equal to the sum of product_price times
\* quantity over its items, also when the buyer's cart or a product's price is
\* changed by another request while the checkout request runs.
C27_OrderMatchesItems ==
    \A w \in CheckoutWorkers :
        (pc[w] = "done" /\ loc[w].order \in DOMAIN orders) =>
            /\ ItemsOf(loc[w].order) # {}
            /\ orders[loc[w].order].subtotal = OrderItemsValue(ItemsOf(loc[w].order))

\* C28: after any sequence of add_to_cart and update_cart requests with arbitrary
\* integer quantities, every cart item has a quantity of at least 1 and of at most
\* the product's stock as it was when the item was last written.
C28_CartQuantities ==
    \A ci \in cartItems :
        /\ ci.quantity >= 1
        /\ ci.quantity <= products[ci.product].stock

\* what a reaction row says, without its primary key
ReactionsOfType(R, reaction_type) ==
    {[user |-> r.user, thread |-> r.thread, post |-> r.post] :
        r \in {x \in R : x.reaction_type = reaction_type}}

\* C29: after any sequence of toggle_reaction requests a user never holds both an
\* upvote and a downvote on the same thread or post and holds at most one reaction
\* of each type on it, and toggling the same reaction type twice in a row restores
\* the previous set of reactions of that type.
C29_ReactionToggle ==
    \A u \in Users, t \in ThreadIds \cup {NULL}, p \in PostIds \cup {NULL} :
        ((t = NULL) # (p = NULL)) =>
            /\ ~(/\ ReactionRows(reactions, u, t, p, "upvote") # {}
                 /\ ReactionRows(reactions, u, t, p, "downvote") # {})
            /\ \A ty \in PostedReactionTypes :
                  /\ Cardinality(ReactionRows(reactions, u, t, p, ty)) <= 1
                  /\ LET once == Toggled(reactions, nextReactionId, u, t, p, ty)
                         twice == Toggled(once.reactions, once.nextReactionId, u, t, p, ty)
                     IN ReactionsOfType(twice.reactions, ty) = ReactionsOfType(reactions, ty)

\* u1 took back a downvote on the thread by voting it up, beside a heart of theirs
\* and a downvote of u2
C29_Witness ==
    /\ response.handler = "toggle_reaction"
    /\ response.request = <<"u1", "t1", NULL, "upvote">>
    /\ response.result = "added"
    /\ \E r \in ReactionRows(reactions, "u1", "t1", NULL, "upvote") : r.id = MaxReactions
    /\ ReactionRows(reactions, "u1", "t1", NULL, "heart") # {}
    /\ ReactionRows(reactions, "u2", "t1", NULL, "downvote") # {}
    /\ ReactionRows(reactions, "u1", "t1", NULL, "downvote") = {}

\* C30: no sequence of moderation actions (ban_user, handle_report with the action
\* ban_user, unban_user) creates a UserBan for a superuser, and a user never has
\* more than one UserBan record.
C30_BanRecords ==
    /\ \A b \in userBans : ~is_superuser(b.user)
    /\ \A u \in Accounts : Cardinality({b \in userBans : b.user = u}) <= 1

====
